---------------------------- MODULE Spec2Model ----------------------------
(***************************************************************************)
(* A model of the K-pop intelligence bot (src/kpop_bot.py): the feed       *)
(* ingestion, trust and relevance gates, deduplication, image enrichment   *)
(* and the snapshot handling of KpopIntelligenceBot.run.                   *)
(*                                                                         *)
(* Python strings are modelled as sequences of one-character strings, so   *)
(* that slicing, lower-casing and substring tests are computed and not     *)
(* assumed.  None is the empty tuple and a present value v is <<v>>.       *)
(***************************************************************************)
EXTENDS Integers, Sequences, FiniteSets, TLC

\* ------------------------------------------------------------------ strings

UpperLetters == <<"A","B","C","D","E","F","G","H","I","J","K","L","M","N","O","P","Q","R","S","T","U","V","W","X","Y","Z">>
LowerLetters == <<"a","b","c","d","e","f","g","h","i","j","k","l","m","n","o","p","q","r","s","t","u","v","w","x","y","z">>

Range(s) == { s[i] : i \in DOMAIN s }

Min(a, b) == IF a < b THEN a ELSE b

\* the lower-case letter of each upper-case letter
LowerOf ==
    [c \in Range(UpperLetters) |->
        LowerLetters[CHOOSE i \in DOMAIN UpperLetters : UpperLetters[i] = c]]

\* str.lower() of one character (ASCII)
LowerChar(c) == IF c \in DOMAIN LowerOf THEN LowerOf[c] ELSE c

\* str.lower()
Lower(s) == [i \in DOMAIN s |-> LowerChar(s[i])]

\* the Python test "sub in s" on strings
Contains(sub, s) ==
    \E i \in 0..(Len(s) - Len(sub)) : \A j \in DOMAIN sub : s[i + j] = sub[j]

\* the Python slice s[:n]
Take(s, n) == SubSeq(s, 1, Min(n, Len(s)))

\* the Python slice s[n:], n >= 0
Drop(s, n) == SubSeq(s, n + 1, Len(s))

\* str.replace(c, "") for a one-character c
RemoveChar(s, c) == SelectSeq(s, LAMBDA x : x # c)

\* str.find for a set of one-character needles, from position <<"f","r","o","m">> (1-based);
\* Len(s) + 1 when none occurs
FindAny(s, chars, from) ==
    IF \E i \in from..Len(s) : s[i] \in chars
    THEN CHOOSE i \in from..Len(s) :
            s[i] \in chars /\ \A j \in from..(i - 1) : s[j] \notin chars
    ELSE Len(s) + 1

RECURSIVE Concat(_)
\* "".join(parts)
Concat(parts) ==
    IF parts = << >> THEN << >> ELSE Head(parts) \o Concat(Tail(parts))

\* None and a present value
None == << >>
Some(v) == << v >>
IsNone(o) == o = << >>
Val(o) == o[1]

\* ------------------------------------------------------ KpopIntelligenceBot

whitelist ==
    { <<"s","o","o","m","p","i",".","c","o","m">>, <<"a","l","l","k","p","o","p",".","c","o","m">>, <<"b","i","l","l","b","o","a","r","d",".","c","o","m">>, <<"n","m","e",".","c","o","m">>,
      <<"k","o","r","e","a","b","o","o",".","c","o","m">>, <<"r","o","l","l","i","n","g","s","t","o","n","e",".","c","o","m">>, <<"w","e","v","e","r","s","e",".","i","o">>, <<"h","y","p","e","b","e","a","s","t",".","c","o","m">>,
      <<"v","a","r","i","e","t","y",".","c","o","m">>, <<"k","o","r","e","a","h","e","r","a","l","d",".","c","o","m">> }

validation_keywords ==
    { <<"c","o","n","f","i","r","m","e","d">>, <<"a","n","n","o","u","n","c","e","d">>, <<"s","c","h","e","d","u","l","e">>, <<"t","i","c","k","e","t"," ","s","a","l","e","s">>,
      <<"d","a","t","e","s">>, <<"c","i","t","i","e","s">>, <<"u","n","v","e","i","l","s">>, <<"d","r","o","p","s">>, <<"r","e","l","e","a","s","e">>, <<"c","o","m","e","b","a","c","k">> }

BAD_IMAGE_PATTERNS ==
    { <<"l","h","3",".","g","o","o","g","l","e","u","s","e","r","c","o","n","t","e","n","t",".","c","o","m">>, <<"g","o","o","g","l","e",".","c","o","m","/","l","o","g","o","s">>, <<"g","s","t","a","t","i","c",".","c","o","m">>,
      <<"g","n","e","w","s","-","l","o","g","o">> }

\* the patterns looked for whatever the case of the url
is_valid_image_any_case(url) ==
    IF url = << >> THEN FALSE
    ELSE ~ \E pattern \in BAD_IMAGE_PATTERNS : Contains(pattern, Lower(url))

\* is_valid_image: a non-empty url that contains no bad pattern
is_valid_image(url) ==
    IF url = << >> THEN FALSE
    ELSE ~ \E pattern \in BAD_IMAGE_PATTERNS : Contains(pattern, url)

SchemeChars ==
    Range(UpperLetters) \cup Range(LowerLetters) \cup Range(<<"0","1","2","3","4","5","6","7","8","9","+","-",".">>)

\* urllib.parse.urlsplit, the part that yields the scheme: the text before the
\* first ":" when it starts with a letter and holds only scheme characters
HasScheme(url) ==
    LET i == FindAny(url, {":"}, 1) IN
        /\ i > 1 /\ i <= Len(url)
        /\ url[1] \in Range(UpperLetters) \cup Range(LowerLetters)
        /\ \A j \in 1..(i - 1) : url[j] \in SchemeChars

AfterScheme(url) ==
    IF HasScheme(url) THEN Drop(url, FindAny(url, {":"}, 1)) ELSE url

\* urllib.parse.urlparse(url).netloc: after the scheme, what follows "//" up to
\* the first of "/", "?", "#"; empty when the rest does not start with "//"
netloc(url) ==
    LET rest == AfterScheme(url) IN
        IF Take(rest, 2) = <<"/","/">>
        THEN SubSeq(rest, 3, FindAny(rest, {"/", "?", "#"}, 3) - 1)
        ELSE << >>

\* urlsplit raises ValueError ("Invalid IPv6 URL") on an unbalanced bracket
UrlparseRaises(url) ==
    LET n == netloc(url) IN
        \/ ("[" \in Range(n) /\ "]" \notin Range(n))
        \/ ("]" \in Range(n) /\ "[" \notin Range(n))

\* is_whitelisted with the trusted domain contained anywhere in the netloc
is_whitelisted(url) ==
    IF UrlparseRaises(url) THEN FALSE
    ELSE LET domain == Lower(netloc(url)) IN
            \E allowed \in whitelist : Contains(allowed, domain)

\* the keywords looked for in the text as it is written
validate_content_as_written(text) ==
    \E keyword \in validation_keywords : Contains(keyword, text)

\* validate_content: some keyword occurs in the lower-cased text
validate_content(text) ==
    LET text_lower == Lower(text) IN
        \E keyword \in validation_keywords : Contains(keyword, text_lower)

\* is_whitelisted_source_name: the name, lower-cased and without spaces, occurs
\* in some trusted domain written without its dots
is_whitelisted_source_name(source_name) ==
    LET name_clean == RemoveChar(Lower(source_name), " ") IN
        \E domain \in whitelist : Contains(name_clean, RemoveChar(domain, "."))


\* ------------------------------------------------------- regular expressions

Digits == Range(<<"0","1","2","3","4","5","6","7","8","9">>)
Letters == Range(UpperLetters) \cup Range(LowerLetters)

\* \w and \s of the re module, on ASCII text
WordChars == Letters \cup Digits \cup {"_"}
Whitespace == {" ", "\t", "\n", "\r", "\f"}

\* \b before position i (1-based; i = Len(s) + 1 is the end of the text): one
\* side is a word character and the other is not
WordBoundary(s, i) ==
    (i - 1 \in DOMAIN s /\ s[i - 1] \in WordChars)
        # (i \in DOMAIN s /\ s[i] \in WordChars)

\* a literal of a pattern compiled with re.IGNORECASE, matched at position i
LiteralAt(s, i, lit) ==
    /\ i + Len(lit) - 1 <= Len(s)
    /\ \A j \in DOMAIN lit : LowerChar(s[i + j - 1]) = LowerChar(lit[j])

\* the first position from i on whose character is not in chars (a greedy
\* chars* that nothing makes give characters back)
SkipAll(s, i, chars) ==
    IF \E j \in i..Len(s) : s[j] \notin chars
    THEN CHOOSE j \in i..Len(s) :
            s[j] \notin chars /\ \A k \in i..(j - 1) : s[k] \in chars
    ELSE Len(s) + 1

\* lines 77-79: the alternatives of city_regex, in the order of the pattern
CityNames ==
    << <<"S","e","a","t","t","l","e">>, <<"N","e","w"," ","Y","o","r","k">>, <<"N","Y","C">>, <<"L","o","s"," ","A","n","g","e","l","e","s">>, <<"L","A">>, <<"C","h","i","c","a","g","o">>, <<"H","o","u","s","t","o","n">>,
       <<"A","t","l","a","n","t","a">>, <<"D","a","l","l","a","s">>, <<"S","a","n"," ","F","r","a","n","c","i","s","c","o">>, <<"O","a","k","l","a","n","d">>, <<"N","e","w","a","r","k">>,
       <<"W","a","s","h","i","n","g","t","o","n"," ","D",".","C",".">>, <<"L","a","s"," ","V","e","g","a","s">>, <<"A","n","a","h","e","i","m">>, <<"I","n","g","l","e","w","o","o","d">>, <<"R","o","s","e","m","o","n","t">>,
       <<"F","o","r","t"," ","W","o","r","t","h">>, <<"B","e","l","m","o","n","t"," ","P","a","r","k">>, <<"R","e","a","d","i","n","g">> >>

\* whether alternative k of city_regex, between its two \b, matches at i
CityAlternativeAt(s, i, k) ==
    /\ LiteralAt(s, i, CityNames[k])
    /\ WordBoundary(s, i + Len(CityNames[k]))

\* city_regex matched at position i: the length of the match, 0 when there is
\* none; the alternatives are tried in order
CityMatchLen(s, i) ==
    IF WordBoundary(s, i) /\ \E k \in DOMAIN CityNames : CityAlternativeAt(s, i, k)
    THEN Len(CityNames[CHOOSE k \in DOMAIN CityNames :
                /\ CityAlternativeAt(s, i, k)
                /\ \A h \in 1..(k - 1) : ~ CityAlternativeAt(s, i, h)])
    ELSE 0

\* the least element of a non-empty set of positions
MinOf(S) == CHOOSE j \in S : \A h \in S : j <= h

\* the positions at which city_regex matches
CityStarts(s) == { j \in DOMAIN s : CityMatchLen(s, j) > 0 }

RECURSIVE CityScan(_, _, _)
\* the scan of findall, which found its next match at position j
CityScanAt(s, starts, j) ==
    << SubSeq(s, j, j + CityMatchLen(s, j) - 1) >>
        \o CityScan(s, starts, j + CityMatchLen(s, j))

\* the scan of findall from position i on: the leftmost match, then the scan
\* of what follows it
CityScan(s, starts, i) ==
    IF { j \in starts : j >= i } = {} THEN << >>
    ELSE CityScanAt(s, starts, MinOf({ j \in starts : j >= i }))

\* city_regex.findall(text): the pattern has one group, which spans the whole
\* match, so findall lists the matched texts
CityFindall(s) == CityScan(s, CityStarts(s), 1)

\* line 85: the alternatives of the group of date_regex
MonthNames ==
    { <<"J","a","n">>, <<"F","e","b">>, <<"M","a","r">>, <<"A","p","r">>, <<"M","a","y">>, <<"J","u","n">>, <<"J","u","l">>, <<"A","u","g">>, <<"S","e","p">>, <<"O","c","t">>,
      <<"N","o","v">>, <<"D","e","c">> }

MonthLen == 3

\* (?:st|nd|rd|th)
OrdinalSuffixes == { <<"s","t">>, <<"n","d">>, <<"r","d">>, <<"t","h">> }

\* an optional character c at position i: the position after it
SkipOne(s, i, c) == IF i \in DOMAIN s /\ s[i] = c THEN i + 1 ELSE i

\* (?:st|nd|rd|th)? at position i: the position after it
SkipOrdinal(s, i) ==
    IF \E x \in OrdinalSuffixes : LiteralAt(s, i, x) THEN i + 2 ELSE i

(* date_regex matched at position i: the position after the match, 0 when    *)
(* there is none.  Each greedy part is followed by something it cannot      *)
(* match itself, so there is one way to match:                              *)
(*   \b (Jan|...|Dec) [a-z]* \.? \s+ \d{1,2} (?:st|nd|rd|th)? ,? \s+ \d{4} \b *)
(* The operators below match the pattern part by part, from its end.        *)

\* \d{4}\b, that took the digits from p to q
DateYearEnd(s, p, q) == IF q - p = 4 /\ WordBoundary(s, q) THEN q ELSE 0

\* \s+ before the year, that took the whitespace from p to q
DateYear(s, p, q) ==
    IF q > p THEN DateYearEnd(s, q, SkipAll(s, q, Digits)) ELSE 0

\* \d{1,2}(?:st|nd|rd|th)?,? and the rest, the digits taken from p to q
DateDayEnd(s, p, q) ==
    IF q - p \in {1, 2}
    THEN DateYear(s, SkipOne(s, SkipOrdinal(s, q), ","),
                  SkipAll(s, SkipOne(s, SkipOrdinal(s, q), ","), Whitespace))
    ELSE 0

\* \s+ before the day, that took the whitespace from p to q
DateDay(s, p, q) ==
    IF q > p THEN DateDayEnd(s, q, SkipAll(s, q, Digits)) ELSE 0

\* the pattern from \s+ on, matched at p
DateAfterMonth(s, p) == DateDay(s, p, SkipAll(s, p, Whitespace))

DateMatchEnd(s, i) ==
    IF WordBoundary(s, i) /\ \E m \in MonthNames : LiteralAt(s, i, m)
    THEN DateAfterMonth(s, SkipOne(s, SkipAll(s, i + MonthLen, Letters), "."))
    ELSE 0

\* the positions at which date_regex matches
DateStarts(s) == { j \in DOMAIN s : DateMatchEnd(s, j) > 0 }

RECURSIVE DateScan(_, _, _)
\* the scan of findall, which found its next match at position j
DateScanAt(s, starts, j) ==
    << [from |-> j, to |-> DateMatchEnd(s, j)] >>
        \o DateScan(s, starts, DateMatchEnd(s, j))

\* the scan of findall from position i on: the leftmost match, then the scan
\* of what follows it
DateScan(s, starts, i) ==
    IF { j \in starts : j >= i } = {} THEN << >>
    ELSE DateScanAt(s, starts, MinOf({ j \in starts : j >= i }))

\* the matches of date_regex in the text, as findall and finditer scan them:
\* [from, to) of each
DateMatches(s) == DateScan(s, DateStarts(s), 1)

\* what the group (the month) matched in each of the matches ms
GroupsOf(s, ms) ==
    [k \in DOMAIN ms |-> SubSeq(s, ms[k].from, ms[k].from + MonthLen - 1)]

\* date_regex.findall(text): the pattern has one group, the month, so findall
\* lists what the group matched and not the whole match
DateFindall(s) == GroupsOf(s, DateMatches(s))

\* extract_metadata, lines 119-126.  list(set(...)) holds each distinct string
\* once, in the order of the set's iteration, which is not fixed: the lists
\* are modelled by their elements
extract_metadata(text) ==
    [ cities |-> Range(CityFindall(text)),
      dates  |-> Range(DateFindall(text)) ]
\* ------------------------------------------------------------- feed entries

(* One <item> of a feed document, as the XML parser exposes it: each of      *)
(* title, source, link, pubDate, description and media:content is None      *)
(* when the element is absent.  A description is its text and the src       *)
(* attributes of the <img> tags of its markup, in document order (None for  *)
(* an <img> without src); media is the url attribute of media:content       *)
(* (None when the element has no url attribute).                            *)

ImgTag(src) == IF IsNone(src) THEN <<"<","i","m","g",">">> ELSE <<"<","i","m","g"," ","s","r","c","=","'">> \o Val(src) \o <<"'",">">>

\* item.description.text: the markup that html.parser is given
DescriptionText(d) == d.text \o Concat([i \in DOMAIN d.imgs |-> ImgTag(d.imgs[i])])

\* lines 151, 155, 156: item.title.text, item.link.text and item.pubDate.text
\* raise AttributeError when the element is absent
EntryRaises(item) ==
    IsNone(item.title) \/ IsNone(item.link) \/ IsNone(item.pubDate)

\* lines 153-154
SourceName(item) == IF IsNone(item.source) THEN <<"U","n","k","n","o","w","n">> ELSE Val(item.source)

\* line 157
Description(item) ==
    IF IsNone(item.description) THEN << >>
    ELSE DescriptionText(Val(item.description))

\* lines 163-165: the url of media:content, when the element and a non-empty
\* url attribute are present
MediaImage(item) ==
    IF /\ ~ IsNone(item.media)
       /\ ~ IsNone(Val(item.media))
       /\ Val(Val(item.media)) # << >>
    THEN Val(Val(item.media))
    ELSE << >>

\* lines 169-174: the src of the first <img> of the description, when it is
\* present, non-empty and a valid image
DescriptionImage(item) ==
    LET imgs == Val(item.description).imgs IN
        IF /\ imgs # << >>
           /\ ~ IsNone(imgs[1])
           /\ Val(imgs[1]) # << >>
           /\ is_valid_image(Val(imgs[1]))
        THEN Val(imgs[1])
        ELSE << >>

\* lines 160-174: the description is parsed only when media:content gave no url
ExtractImage(item) ==
    LET image_url == MediaImage(item) IN
        IF image_url = << >> /\ Description(item) # << >>
        THEN DescriptionImage(item)
        ELSE image_url

\* line 177
FullText(item) == Val(item.title) \o <<" ">> \o Description(item)

\* the gate with its inner test on the link instead of the name
PassesTrustGateInnerLink(item) ==
    IF /\ ~ is_whitelisted_source_name(SourceName(item))
       /\ ~ is_whitelisted(Val(item.link))
    THEN IF is_whitelisted(Val(item.link)) THEN FALSE ELSE TRUE
    ELSE TRUE

\* lines 180-182: the entry is skipped when neither the source name nor the
\* link is trusted
PassesTrustGate(item) ==
    IF /\ ~ is_whitelisted_source_name(SourceName(item))
       /\ ~ is_whitelisted(Val(item.link))
    THEN IF ~ is_whitelisted_source_name(SourceName(item)) THEN FALSE ELSE TRUE
    ELSE TRUE

\* the keyword gate left out
PassesKeywordGateSkipped(item) == TRUE

\* lines 185-186
PassesKeywordGate(item) == validate_content(FullText(item))

\* the final image check left out
FinalImageUnchecked(image_url) == image_url

\* lines 191-193: the final image check before the candidate is built
FinalImage(image_url) ==
    IF image_url # << >> /\ ~ is_valid_image(image_url) THEN << >> ELSE image_url

\* the candidate tagged with the default query_type of line 128
CandidateDefaultTopic(artist, query_type, item) ==
    LET metadata == extract_metadata(FullText(item)) IN
        [ artist       |-> artist,
          topic        |-> <<"U","S"," ","T","o","u","r">>,
          title        |-> Val(item.title),
          source       |-> SourceName(item),
          url          |-> Val(item.link),
          published_at |-> Val(item.pubDate),
          image_url    |-> FinalImage(ExtractImage(item)),
          extracted_cities |-> metadata.cities,
          extracted_dates  |-> metadata.dates ]

\* lines 188-189 and 195-205
Candidate(artist, query_type, item) ==
    LET metadata == extract_metadata(FullText(item)) IN
        [ artist       |-> artist,
          topic        |-> query_type,
          title        |-> Val(item.title),
          source       |-> SourceName(item),
          url          |-> Val(item.link),
          published_at |-> Val(item.pubDate),
          image_url    |-> FinalImage(ExtractImage(item)),
          extracted_cities |-> metadata.cities,
          extracted_dates  |-> metadata.dates ]

\* whether the loop body of lines 150-205 appends a candidate for the entry
Emits(item) == PassesTrustGate(item) /\ PassesKeywordGate(item)

\* fetch_news without the except clause of lines 139-141
fetch_news_uncaught(artist, query_type, response) ==
    IF ~ response.ok THEN [raised |-> TRUE, items |-> << >>]
    ELSE IF \E i \in DOMAIN response.items : EntryRaises(response.items[i])
    THEN [raised |-> TRUE, items |-> << >>]
    ELSE LET kept == SelectSeq(response.items, Emits) IN
         [ raised |-> FALSE,
           items  |-> [i \in DOMAIN kept |-> Candidate(artist, query_type, kept[i])] ]

(* fetch_news(artist, query_type) on the response the feed request got.      *)
(* A response is [ok, items]: ok is FALSE when requests.get or              *)
(* raise_for_status raised a RequestException (lines 136-141).  The result  *)
(* is [raised, items]: raised when an entry made the loop raise.            *)
fetch_news(artist, query_type, response) ==
    IF ~ response.ok THEN [raised |-> FALSE, items |-> << >>]
    ELSE IF \E i \in DOMAIN response.items : EntryRaises(response.items[i])
    THEN [raised |-> TRUE, items |-> << >>]
    ELSE LET kept == SelectSeq(response.items, Emits) IN
         [ raised |-> FALSE,
           items  |-> [i \in DOMAIN kept |-> Candidate(artist, query_type, kept[i])] ]

\* ------------------------------------------------------------ fetch_og_image

\* fetch_og_image without the status test of line 224
fetch_og_image_any_status(page) ==
    IF page.raises THEN << >>
    ELSE IF ~ IsNone(page.og)
            /\ Val(page.og) # << >>
            /\ is_valid_image(Val(page.og))
         THEN Val(page.og)
         ELSE << >>

(* The answer to the page request of fetch_og_image: raises (any exception   *)
(* of requests.get or of the parser), or a status and the content of the    *)
(* first <meta property="og:image"> (None without the tag or its content).  *)
fetch_og_image(page) ==
    IF page.raises THEN << >>
    ELSE IF page.status = 200
            /\ ~ IsNone(page.og)
            /\ Val(page.og) # << >>
            /\ is_valid_image(Val(page.og))
         THEN Val(page.og)
         ELSE << >>

\* --------------------------------------------------------------- deduplicate

\* line 265: the length of the title prefix
TitleKeyLen == 30

\* the key of the comment of line 263: the first 20 characters
title_key_20(item) == Lower(Take(item.title, 20))

\* the title prefix as it is written, not lower-cased
title_key_exact(item) == Take(item.title, TitleKeyLen)

\* line 265: item['title'][:30].lower()
title_key(item) == Lower(Take(item.title, TitleKeyLen))

RECURSIVE DedupeLoop(_, _, _, _)
\* lines 262-268: the positions of the items appended to unique_items
DedupeLoop(items, i, seen_titles, unique_items) ==
    IF i > Len(items) THEN unique_items
    ELSE IF title_key(items[i]) \notin seen_titles
         THEN DedupeLoop(items, i + 1, seen_titles \cup {title_key(items[i])},
                         Append(unique_items, i))
         ELSE DedupeLoop(items, i + 1, seen_titles, unique_items)

\* deduplicate(items): the positions, in items, of the dicts of the returned list
\* (the list holds the same dict objects as its argument)
deduplicate(items) == DedupeLoop(items, 1, {}, << >>)

\* -------------------------------------------------------- enrich_with_images

\* line 244
CountKey(item) == item.artist \o <<"_">> \o item.topic

\* line 245: artist_counts.get(key, 0)
GetCount(counts, key) == IF key \in DOMAIN counts THEN counts[key] ELSE 0

\* line 250: artist_counts[key] = count + 1
SetCount(counts, key, n) ==
    [k \in DOMAIN counts \cup {key} |-> IF k = key THEN n ELSE counts[k]]

\* the limit test off by one
ShouldFetchOffByOne(counts, limit, item) ==
    GetCount(counts, CountKey(item)) <= limit /\ item.image_url = << >>

\* the limit test alone, whether the item has an image or not
ShouldFetchIgnoringImage(counts, limit, item) ==
    GetCount(counts, CountKey(item)) < limit

\* line 247
ShouldFetch(counts, limit, item) ==
    GetCount(counts, CountKey(item)) < limit /\ item.image_url = << >>

\* -------------------------------------------------------------------- inputs

\* the first artists of the targets of __main__ (lines 1253-1272), in order
Roster == << <<"B","T","S">>, <<"N","M","I","X","X">> >>

\* lines 284-285: the two queries of each artist, in the order run issues them
Topics == << <<"U","S"," ","T","o","u","r">>, <<"C","o","m","e","b","a","c","k">> >>

\* the pairs topic by topic: every artist's first query, then every artist's
\* second
PairsByTopic ==
    [k \in 1..(Len(Roster) * Len(Topics)) |->
        [ artist |-> Roster[((k - 1) % Len(Roster)) + 1],
          topic  |-> Topics[((k - 1) \div Len(Roster)) + 1] ]]

\* the (artist, topic) pairs in the order of the loop of lines 282-285
Pairs ==
    [k \in 1..(Len(Roster) * Len(Topics)) |->
        [ artist |-> Roster[((k - 1) \div Len(Topics)) + 1],
          topic  |-> Topics[((k - 1) % Len(Topics)) + 1] ]]

\* line 291: limit_per_artist=3
RunLimit == 3

ValidImage == <<"h","t","t","p","s",":","/","/","c","d","n",".","e","x","a","m","p","l","e",".","c","o","m","/","p",".","j","p","g">>
OtherImage == <<"h","t","t","p","s",":","/","/","i","m","g",".","e","x","a","m","p","l","e",".","c","o","m","/","o","g",".","p","n","g">>
BadImage == <<"h","t","t","p","s",":","/","/","w","w","w",".","g","s","t","a","t","i","c",".","c","o","m","/","l","o","g","o",".","p","n","g">>

AllKeywords ==
    <<"c","o","n","f","i","r","m","e","d"," ","a","n","n","o","u","n","c","e","d"," ","s","c","h","e","d","u","l","e"," ","t","i","c","k","e","t"," ","s","a","l","e","s"," ","d","a","t","e","s"," ","c","i","t","i","e","s"," ","u","n","v","e","i","l","s"," ","d","r","o","p","s"," ","r","e","l","e","a","s","e"," ","c","o","m","e","b","a","c","k">>

Entry(title, source, link, pubDate, description, media) ==
    [ title |-> title, source |-> source, link |-> link, pubDate |-> pubDate,
      description |-> description, media |-> media ]

Desc(text, imgs) == Some([text |-> text, imgs |-> imgs])

GoogleLink == <<"h","t","t","p","s",":","/","/","n","e","w","s",".","g","o","o","g","l","e",".","c","o","m","/","a","1">>

\* trusted by source name, relevant, no image
E_tour1 ==
    Entry(Some(<<"B","T","S"," ","c","o","n","f","i","r","m","s"," ","U","S"," ","t","o","u","r"," ","d","a","t","e","s"," ","f","o","r"," ","2","0","2","6">>), Some(<<"S","o","o","m","p","i">>),
          Some(GoogleLink), Some(<<"M","o","n">>),
          Desc(<<"t","i","c","k","e","t","s"," ","i","n"," ","S","e","a","t","t","l","e"," ","o","n"," ","M","a","y"," ","1","6",","," ","2","0","2","6">>, << >>), None)

\* no <source>, trusted by link only, relevant, a valid media:content image
E_tour2 ==
    Entry(Some(<<"B","T","S"," ","w","o","r","l","d"," ","t","o","u","r"," ","s","c","h","e","d","u","l","e"," ","a","n","n","o","u","n","c","e","d">>), None,
          Some(<<"h","t","t","p","s",":","/","/","w","w","w",".","a","l","l","k","p","o","p",".","c","o","m","/","a","r","t","i","c","l","e","/","2">>), Some(<<"T","u","e">>), None,
          Some(Some(ValidImage)))

\* neither name nor link trusted, every keyword present
E_untrusted ==
    Entry(Some(<<"B","T","S"," ","r","e","l","e","a","s","e"," ","r","u","m","o","r">>), Some(<<"F","a","n"," ","B","l","o","g">>),
          Some(<<"h","t","t","p","s",":","/","/","s","o","o","m","p","i",".","e","x","a","m","p","l","e",".","o","r","g","/","x">>), Some(<<"W","e","d">>),
          Desc(AllKeywords, << >>), None)

\* trusted, relevant, a placeholder media:content url and a valid description <img>
E_comeback ==
    Entry(Some(<<"N","M","I","X","X"," ","d","r","o","p","s"," ","c","o","m","e","b","a","c","k"," ","t","e","a","s","e","r"," ","f","o","r"," ","n","e","w"," ","a","l","b","u","m">>), Some(<<"B","i","l","l","b","o","a","r","d">>),
          Some(GoogleLink), Some(<<"T","h","u">>), Desc(<<"p","h","o","t","o">>, << Some(ValidImage) >>),
          Some(Some(BadImage)))

\* trusted but irrelevant
E_offtopic ==
    Entry(Some(<<"B","T","S"," ","a","t"," ","t","h","e"," ","a","w","a","r","d","s"," ","s","h","o","w">>), Some(<<"S","o","o","m","p","i">>), Some(GoogleLink),
          Some(<<"F","r","i">>), None, None)

\* no <pubDate>
E_nopubdate ==
    Entry(Some(<<"B","T","S"," ","c","o","m","e","b","a","c","k">>), Some(<<"S","o","o","m","p","i">>), Some(GoogleLink), None, None, None)

Plain(title) ==
    Entry(Some(title), Some(<<"S","o","o","m","p","i">>), Some(GoogleLink), Some(<<"S","a","t">>), None, None)

Ok(items) == [ok |-> TRUE, items |-> items]
Failed == [ok |-> FALSE, items |-> << >>]

\* the feed responses a run is given
RunResponses ==
    { Failed,
      Ok(<< E_tour1, E_untrusted >>),
      Ok(<< E_offtopic, E_tour2 >>),
      Ok(<< E_comeback, Plain(<<"S","e","o","u","l"," ","d","a","t","e","s">>), Plain(<<"T","o","k","y","o"," ","d","a","t","e","s">>),
            Plain(<<"O","s","a","k","a"," ","d","a","t","e","s">>) >>),
      Ok(<< E_tour1, E_nopubdate >>) }

\* the values each element of an entry takes when fetch_news is called directly
EntryTitles == { None, Some(<< >>), Some(<<"C","o","m","e","b","a","c","k">>), Some(<<"N","e","w","s">>) }
EntrySources ==
    { None, Some(<< >>), Some(<<"c","o","m">>), Some(<<"S","o","o","m","p","i">>), Some(<<"A","l","l"," ","K","p","o","p">>),
      Some(<<"F","a","n"," ","B","l","o","g">>) }
EntryLinks ==
    { None,
      Some(<< >>),
      Some(<<"h","t","t","p","s",":","/","/","w","w","w",".","s","o","o","m","p","i",".","c","o","m","/","a">>),
      Some(<<"h","t","t","p","s",":","/","/","s","o","o","m","p","i",".","c","o","m",".","e","v","i","l",".","n","e","t","/","a">>),
      Some(<<"h","t","t","p","s",":","/","/","n","o","t","s","o","o","m","p","i",".","c","o","m","m","u","n","i","t","y","/","a">>),
      Some(<<"h","t","t","p","s",":","/","/","e","v","i","l",".","n","e","t","/","s","o","o","m","p","i",".","c","o","m">>),
      Some(<<"H","T","T","P","S",":","/","/","W","W","W",".","A","L","L","K","P","O","P",".","C","O","M","/","a">>),
      Some(<<"h","t","t","p","s",":","/","/","w","e","v","e","r","s","e",".","i","o",":","4","4","3","/","a">>),
      Some(<<"w","w","w",".","s","o","o","m","p","i",".","c","o","m","/","a">>) }
EntryDates == { None, Some(<<"M","o","n">>) }
EntryDescriptions ==
    { None,
      Desc(AllKeywords, << >>),
      Desc(<<"p","h","o","t","o">>, << Some(ValidImage) >>),
      Desc(<<"p","h","o","t","o">>, << Some(BadImage) >>),
      Desc(<<"p","h","o","t","o">>, << None, Some(ValidImage) >>) }
EntryMedia == { None, Some(None), Some(Some(BadImage)), Some(Some(OtherImage)) }

AllEntries ==
    { Entry(t, s, l, d, x, m) :
        t \in EntryTitles, s \in EntrySources, l \in EntryLinks,
        d \in EntryDates, x \in EntryDescriptions, m \in EntryMedia }

\* the feed responses a direct call of fetch_news is given: a failure, every
\* document of at most one entry, and the documents of a run
FetchResponses ==
    { Failed, Ok(<< >>) } \cup { Ok(<< e >>) : e \in AllEntries } \cup RunResponses

\* the answers a page request of fetch_og_image is given
PageResponses ==
    { [raises |-> TRUE,  status |-> 0,   og |-> None],
      [raises |-> FALSE, status |-> 404, og |-> Some(OtherImage)],
      [raises |-> FALSE, status |-> 200, og |-> None],
      [raises |-> FALSE, status |-> 200, og |-> Some(BadImage)],
      [raises |-> FALSE, status |-> 200, og |-> Some(OtherImage)] }

\* a candidate as a snapshot of an earlier run holds it
OldCandidate ==
    [ artist |-> <<"B","T","S">>, topic |-> <<"U","S"," ","T","o","u","r">>, title |-> <<"B","T","S"," ","a","n","n","o","u","n","c","e","d"," ","d","a","t","e","s">>,
      source |-> <<"S","o","o","m","p","i">>, url |-> GoogleLink, published_at |-> <<"S","u","n">>,
      image_url |-> << >>, extracted_cities |-> {}, extracted_dates |-> {} ]

\* kpop_intelligence.json: None when the file does not exist
Snapshot(items) == Some([malformed |-> FALSE, items |-> items])
MalformedSnapshot == Some([malformed |-> TRUE, items |-> << >>])

InitialSnapshots ==
    { None, MalformedSnapshot, Snapshot(<< >>), Snapshot(<< OldCandidate >>),
      Snapshot(<< OldCandidate, OldCandidate >>) }

\* the number of successive runs in one directory
MaxRuns == 2

\* --------------------------------------------------------------------- state

VARIABLES
    entry,            \* the method that was called: "run", or one called directly
    pc,               \* the position in that call
    runs,             \* how many runs have started
    pair,             \* the next pair of the loop of lines 282-285
    feed_log,         \* the feed requests of this run: [artist, topic, response]
    all_news,         \* line 273; the candidate dicts, shared by the lists below
    clean_news,       \* line 287, as positions in all_news
    limit_per_artist, \* the parameter of enrich_with_images
    idx,              \* the position of the loop of line 243 in clean_news
    artist_counts,    \* line 240
    updated_items,    \* line 242, as positions in all_news
    og_log,           \* the positions in all_news fetch_og_image was called for
    in_flight,        \* the network requests issued and not yet returned
    resp,             \* line 223: the answer the last page request got
    enriched_news,    \* lines 280 and 291
    snapshot,         \* the file kpop_intelligence.json
    summary,          \* the file summary.md: the items it tabulates
    report,           \* the file report.html: the items it renders
    error,            \* the exception that ended the run, "" when none
    arg,              \* the argument of a pure method called directly
    result            \* what that method returned

vars ==
    << entry, pc, runs, pair, feed_log, all_news, clean_news, limit_per_artist, idx,
       artist_counts, updated_items, og_log, in_flight, resp, enriched_news,
       snapshot, summary, report, error, arg, result >>

files == << snapshot, summary, report >>
call == << arg, result >>
pipeline ==
    << pair, feed_log, all_news, clean_news, limit_per_artist, idx,
       artist_counts, updated_items, og_log, in_flight, resp, enriched_news >>

\* the state of a run before its first statement
Fresh ==
    /\ pair = 1
    /\ feed_log = << >>
    /\ all_news = << >>
    /\ clean_news = << >>
    /\ limit_per_artist = 0
    /\ idx = 1
    /\ artist_counts = << >>
    /\ updated_items = << >>
    /\ og_log = << >>
    /\ in_flight = {}
    /\ resp = None
    /\ enriched_news = << >>
    /\ error = ""

\* no pure method is called directly
NoCall ==
    /\ arg = << >>
    /\ result = None

\* bot.run(targets), line 1274, in a directory that may hold the files of
\* earlier runs
Init ==
    /\ entry = "run"
    /\ pc = "start"
    /\ runs = 1
    /\ Fresh
    /\ NoCall
    /\ snapshot \in InitialSnapshots
    /\ summary \in IF IsNone(snapshot) THEN { None }
                   ELSE { None, Some(<< OldCandidate >>) }
    /\ report = None

\* the list of dicts a list of positions stands for
Deref(refs) == [i \in DOMAIN refs |-> all_news[refs[i]]]

\* ------------------------------------------------------------------- actions

\* the blocking requests.get of line 137 and of line 223
FeedRequestOf(p) == [kind |-> "feed", target |-> p.artist \o <<" ">> \o p.topic]
PageRequestOf(item) == [kind |-> "page", target |-> item.url]

\* the loaded list deduplicated
RunCachedDeduplicated ==
    /\ pc = "start"
    /\ ~ IsNone(snapshot)
    /\ IF Val(snapshot).malformed
       THEN /\ pc' = "crashed"
            /\ error' = "JSONDecodeError"
            /\ UNCHANGED enriched_news
       ELSE /\ pc' = "html"
            /\ enriched_news' =
                  LET items == Val(snapshot).items
                      kept == deduplicate(items)
                  IN  [i \in DOMAIN kept |-> items[kept[i]]]
            /\ UNCHANGED error
    /\ UNCHANGED << entry, runs, pair, feed_log, all_news, clean_news,
                    limit_per_artist, idx, artist_counts, updated_items, og_log,
                    in_flight, resp, files, call >>

\* lines 277-280: the snapshot exists; json.load raises on a malformed file
RunCached ==
    /\ pc = "start"
    /\ ~ IsNone(snapshot)
    /\ IF Val(snapshot).malformed
       THEN /\ pc' = "crashed"
            /\ error' = "JSONDecodeError"
            /\ UNCHANGED enriched_news
       ELSE /\ pc' = "html"
            /\ enriched_news' = Val(snapshot).items
            /\ UNCHANGED error
    /\ UNCHANGED << entry, runs, pair, feed_log, all_news, clean_news,
                    limit_per_artist, idx, artist_counts, updated_items, og_log,
                    in_flight, resp, files, call >>

\* lines 277, 281: no snapshot
RunFresh ==
    /\ pc = "start"
    /\ IsNone(snapshot)
    /\ pc' = "fetch"
    /\ UNCHANGED << entry, runs, pipeline, files, error, call >>

\* the feed request issued without waiting for its answer
FeedRequestNoWait ==
    /\ pc = "fetch"
    /\ pair <= Len(Pairs)
    /\ in_flight' = in_flight \cup { FeedRequestOf(Pairs[pair]) }
    /\ pair' = pair + 1
    /\ pc' = IF entry # "run" THEN "returned"
             ELSE IF pair = Len(Pairs) THEN "dedupe" ELSE "fetch"
    /\ UNCHANGED << entry, runs, feed_log, all_news, clean_news, limit_per_artist,
                    idx, artist_counts, updated_items, og_log, resp,
                    enriched_news, files, error, call >>

\* lines 130-137: fetch_news, for the next pair of the loop of lines 284-285 or
\* called directly, issues its feed request and blocks in requests.get
FeedRequest ==
    /\ pc = "fetch"
    /\ pair <= Len(Pairs)
    /\ in_flight' = in_flight \cup { FeedRequestOf(Pairs[pair]) }
    /\ pc' = "feed_wait"
    /\ UNCHANGED << entry, runs, pair, feed_log, all_news, clean_news,
                    limit_per_artist, idx, artist_counts, updated_items, og_log,
                    resp, enriched_news, files, error, call >>

\* lines 137-207, and line 284 or 285 extending all_news: the request returns,
\* fails or times out and fetch_news runs to its end
FetchNews ==
    /\ pc = "feed_wait"
    /\ \E response \in (IF entry = "run" THEN RunResponses ELSE FetchResponses) :
         LET p == Pairs[pair]
             got == fetch_news(p.artist, p.topic, response)
         IN  /\ feed_log' = Append(feed_log,
                    [artist |-> p.artist, topic |-> p.topic, response |-> response])
             /\ in_flight' = in_flight \ { FeedRequestOf(p) }
             /\ IF got.raised
                THEN /\ pc' = "crashed"
                     /\ error' = "AttributeError"
                     /\ UNCHANGED << pair, all_news >>
                ELSE /\ all_news' = all_news \o got.items
                     /\ pair' = pair + 1
                     /\ pc' = IF entry # "run" THEN "returned"
                              ELSE IF pair = Len(Pairs) THEN "dedupe" ELSE "fetch"
                     /\ UNCHANGED error
    /\ UNCHANGED << entry, runs, clean_news, limit_per_artist, idx, artist_counts,
                    updated_items, og_log, resp, enriched_news, files, call >>

\* every candidate passed on to enrich_with_images, duplicates included
DedupeSkipped ==
    /\ pc = "dedupe"
    /\ clean_news' = [i \in DOMAIN all_news |-> i]
    /\ limit_per_artist' = IF entry = "run" THEN RunLimit ELSE limit_per_artist
    /\ pc' = IF entry = "run" THEN "enrich" ELSE "returned"
    /\ UNCHANGED << idx, artist_counts, updated_items >>
    /\ UNCHANGED << entry, runs, pair, feed_log, all_news, og_log, in_flight,
                    resp, enriched_news, files, error, call >>

\* line 287: deduplicate; in run, line 291 then calls enrich_with_images
Dedupe ==
    /\ pc = "dedupe"
    /\ clean_news' = deduplicate(all_news)
    /\ limit_per_artist' = IF entry = "run" THEN RunLimit ELSE limit_per_artist
    /\ pc' = IF entry = "run" THEN "enrich" ELSE "returned"
    /\ UNCHANGED << idx, artist_counts, updated_items >>
    /\ UNCHANGED << entry, runs, pair, feed_log, all_news, og_log, in_flight,
                    resp, enriched_news, files, error, call >>

\* lines 243-249, 253: one iteration of the loop of enrich_with_images, up to
\* the page request of fetch_og_image (line 223) when the item is to be
\* fetched, and to its end otherwise
EnrichStep ==
    /\ pc = "enrich"
    /\ idx <= Len(clean_news)
    /\ LET ref == clean_news[idx]
           item == all_news[ref]
       IN  IF ShouldFetch(artist_counts, limit_per_artist, item)
           THEN /\ in_flight' = in_flight \cup { PageRequestOf(item) }
                /\ og_log' = Append(og_log, ref)
                /\ pc' = "og_wait"
                /\ UNCHANGED << updated_items, idx >>
           ELSE /\ updated_items' = Append(updated_items, ref)
                /\ idx' = idx + 1
                /\ UNCHANGED << in_flight, og_log, pc >>
    /\ UNCHANGED << entry, runs, pair, feed_log, all_news, clean_news,
                    limit_per_artist, artist_counts, resp, enriched_news, files,
                    error, call >>

\* lines 223-233 and 249-253: the page request returns, fails or times out;
\* the item gets what fetch_og_image returns and the iteration ends
FetchOgImage ==
    /\ pc = "og_wait"
    /\ LET ref == clean_news[idx]
           item == all_news[ref]
           key == CountKey(item)
           count == GetCount(artist_counts, key)
       IN  \E page \in PageResponses :
               /\ all_news' = [all_news EXCEPT ![ref].image_url = fetch_og_image(page)]
               /\ artist_counts' = SetCount(artist_counts, key, count + 1)
               /\ in_flight' = in_flight \ { PageRequestOf(item) }
               /\ resp' = Some(page)
               /\ updated_items' = Append(updated_items, ref)
    /\ idx' = idx + 1
    /\ pc' = "enrich"
    /\ UNCHANGED << entry, runs, pair, feed_log, clean_news, limit_per_artist,
                    og_log, enriched_news, files, error, call >>

\* line 255, and line 291 taking the result
EnrichReturn ==
    /\ pc = "enrich"
    /\ idx > Len(clean_news)
    /\ enriched_news' = Deref(updated_items)
    /\ pc' = IF entry = "run" THEN "json" ELSE "returned"
    /\ UNCHANGED << entry, runs, pair, feed_log, all_news, clean_news, limit_per_artist,
                    idx, artist_counts, updated_items, og_log, in_flight, resp,
                    files, error, call >>

\* lines 294-295
DumpJson ==
    /\ pc = "json"
    /\ snapshot' = Snapshot(enriched_news)
    /\ pc' = "markdown"
    /\ UNCHANGED << entry, runs, pipeline, summary, report, error, call >>

\* generate_markdown, lines 305-327: a row for each item, a placeholder line
\* when there is none
generate_markdown ==
    /\ pc = "markdown"
    /\ summary' = Some(enriched_news)
    /\ pc' = "html"
    /\ UNCHANGED << entry, runs, pipeline, snapshot, report, error, call >>

\* generate_html, lines 329-1248
generate_html ==
    /\ pc = "html"
    /\ report' = Some(enriched_news)
    /\ pc' = "done"
    /\ UNCHANGED << entry, runs, pipeline, snapshot, summary, error, call >>

\* the operator runs the script again in the same directory
NextRun ==
    /\ pc = "done"
    /\ runs < MaxRuns
    /\ runs' = runs + 1
    /\ pc' = "start"
    /\ pair' = 1
    /\ feed_log' = << >>
    /\ all_news' = << >>
    /\ clean_news' = << >>
    /\ limit_per_artist' = 0
    /\ idx' = 1
    /\ artist_counts' = << >>
    /\ updated_items' = << >>
    /\ og_log' = << >>
    /\ in_flight' = {}
    /\ resp' = None
    /\ enriched_news' = << >>
    /\ error' = ""
    /\ UNCHANGED << entry, files, call >>

Next ==
    \/ RunCached
    \/ RunFresh
    \/ FeedRequest
    \/ FetchNews
    \/ Dedupe
    \/ EnrichStep
    \/ FetchOgImage
    \/ EnrichReturn
    \/ DumpJson
    \/ generate_markdown
    \/ generate_html
    \/ NextRun

Spec == Init /\ [][Next]_vars

\* run is sequential code: whatever statement is next is executed
FairSpec == Spec /\ WF_vars(Next)
\* ------------------------------------------------------------- direct calls

\* the state of the files and counters outside the method called
Idle ==
    /\ runs = 1
    /\ snapshot = None
    /\ summary = None
    /\ report = None

\* fetch_news(artist, query_type) called on its own, for the first or last pair
FetchInit ==
    /\ entry = "fetch_news"
    /\ pc = "fetch"
    /\ Fresh
    /\ NoCall
    /\ Idle

FetchNext == FeedRequest \/ FetchNews

FetchSpec == FetchInit /\ [][FetchNext]_vars

\* the longest list deduplicate is called on
MaxDedupe == 3

DedupeTitles ==
    { <<"B","T","S"," ","c","o","n","f","i","r","m","s"," ","U","S"," ","t","o","u","r"," ","d","a","t","e","s"," ","f","o","r"," ","2","0","2","6">>,
      <<"B","T","S"," ","C","o","n","f","i","r","m","s"," ","U","S"," ","T","o","u","r"," ","D","a","t","e","s"," ","F","o","r"," ","S","p","r","i","n","g">>,
      <<"B","T","S"," ","c","o","n","f","i","r","m","s"," ","U","S"," ","t","o","u","r"," ","d","a","t","e","s"," ","f","o","x"," ","2","0","2","6">>,
      <<"B","T","S">>,
      <<"b","t","s">> }

DedupeItem(title, artist, image_url) ==
    [ artist |-> artist, topic |-> <<"U","S"," ","T","o","u","r">>, title |-> title,
      source |-> <<"S","o","o","m","p","i">>, url |-> GoogleLink, published_at |-> <<"M","o","n">>,
      image_url |-> image_url, extracted_cities |-> {}, extracted_dates |-> {} ]

DedupeItems ==
    { DedupeItem(t, <<"B","T","S">>, << >>) : t \in DedupeTitles }
        \cup { DedupeItem(t, <<"N","M","I","X","X">>, ValidImage) : t \in DedupeTitles }

\* the sequences over S of length at most n
SeqUpTo(S, n) == UNION { [1..k -> S] : k \in 0..n }

\* deduplicate(items) called on its own
DedupeInit ==
    /\ entry = "deduplicate"
    /\ pc = "dedupe"
    /\ pair = 1
    /\ feed_log = << >>
    /\ all_news \in SeqUpTo(DedupeItems, MaxDedupe)
    /\ clean_news = << >>
    /\ limit_per_artist = 0
    /\ idx = 1
    /\ artist_counts = << >>
    /\ updated_items = << >>
    /\ og_log = << >>
    /\ in_flight = {}
    /\ resp = None
    /\ enriched_news = << >>
    /\ error = ""
    /\ NoCall
    /\ Idle

\* lines 257-270 once more: deduplicate called on the list it has returned
DedupeAgain ==
    /\ entry = "deduplicate"
    /\ pc = "returned"
    /\ arg' = Deref(clean_news)
    /\ result' = LET kept == deduplicate(arg')
                 IN  Some([i \in DOMAIN kept |-> arg'[kept[i]]])
    /\ pc' = "returned_again"
    /\ UNCHANGED << entry, runs, pipeline, files, error >>

DedupeNext == Dedupe \/ DedupeAgain

DedupeSpec == DedupeInit /\ [][DedupeNext]_vars

\* the longest list and the largest limit enrich_with_images is called with
MaxItems == 3
MaxLimit == 2

EnrichItem(artist, topic, image_url) ==
    [ artist |-> artist, topic |-> topic, title |-> <<"B","T","S"," ","a","n","n","o","u","n","c","e","d"," ","d","a","t","e","s">>,
      source |-> <<"S","o","o","m","p","i">>, url |-> GoogleLink, published_at |-> <<"M","o","n">>,
      image_url |-> image_url, extracted_cities |-> {}, extracted_dates |-> {} ]

\* three (artist, topic) groups, two of them with the same line-244 key
EnrichGroups == { << <<"a","_","b">>, <<"c">> >>, << <<"a">>, <<"b","_","c">> >>, << <<"a">>, <<"c">> >> }

EnrichItems ==
    { EnrichItem(g[1], g[2], i) : g \in EnrichGroups, i \in { << >>, ValidImage } }

\* enrich_with_images(items, limit_per_artist) called on its own
EnrichInit ==
    /\ entry = "enrich_with_images"
    /\ pc = "enrich"
    /\ pair = 1
    /\ feed_log = << >>
    /\ all_news \in SeqUpTo(EnrichItems, MaxItems)
    /\ clean_news = [i \in DOMAIN all_news |-> i]
    /\ limit_per_artist \in 0..MaxLimit
    /\ idx = 1
    /\ artist_counts = << >>
    /\ updated_items = << >>
    /\ og_log = << >>
    /\ in_flight = {}
    /\ resp = None
    /\ enriched_news = << >>
    /\ error = ""
    /\ NoCall
    /\ Idle

EnrichNext == EnrichStep \/ FetchOgImage \/ EnrichReturn

EnrichSpec == EnrichInit /\ [][EnrichNext]_vars

\* ------------------------------------------------- pure methods called directly

\* the most parts an argument is put together from
MaxParts == 2

\* the texts put together from at most n of the parts
TextsOf(parts, n) == { Concat(q) : q \in SeqUpTo(parts, n) }

ImageParts ==
    { <<"h","t","t","p","s",":","/","/">>, <<"l","h","3",".","g","o","o","g","l","e","u","s","e","r","c","o","n","t","e","n","t",".","c","o","m">>, <<"g","o","o","g","l","e",".","c","o","m","/","l","o","g","o","s">>, <<"g","s","t","a","t","i","c",".","c","o","m">>,
      <<"g","n","e","w","s","-","l","o","g","o">>, <<"G","S","T","A","T","I","C",".","C","O","M">>, <<"g","s","t","a","t","i","c",".","c","o">>, <<"m">>, <<"g","o","o","g","l","e",".","c","o","m">>, <<"/","l","o","g","o","s">>,
      <<"c","d","n",".","e","x","a","m","p","l","e",".","c","o","m","/","p",".","j","p","g">> }

ContentParts ==
    { <<"G","r","o","u","p"," ","X"," ">>, <<"d","r","o","p","s">>, <<"C","o","m","e","b","a","c","k"," ","t","r","a","i","l","e","r">>, <<"U","N","R","E","L","E","A","S","E","D">>, <<"t","i","c","k","e","t">>, <<" ","s","a","l","e","s">>,
      <<"s","a","l","e","s">>, <<"c","o","m","e">>, <<"b","a","c","k">>, <<" ">>, <<"p","e","r","f","o","r","m","s"," ","a","t"," ","a","w","a","r","d","s"," ","s","h","o","w">>, <<"D","A","T","E","S">>,
      <<"c","o","n","f","i","r","m">>, <<"e","d">>, <<"A","n","n","o","u","n","c","e">> }

CityParts ==
    { <<"S","e","a","t","t","l","e">>, <<" ","a","n","d"," ","S","e","a","t","t","l","e">>, <<" ","a","n","d"," ","S","E","A","T","T","L","E">>, <<"s","e","a","t","t","l","e"," ">>, <<"L","A">>, <<"l","a"," ","l","a">>,
      <<"L","a","s"," ","V","e","g","a","s">>, <<"s"," ","V","e","g","a","s">>, <<"N","e","w"," ","Y","o","r","k">>, <<"N","e","w","a","r","k">>, <<"W","a","s","h","i","n","g","t","o","n"," ","D",".","C",".">>,
      <<"W","a","s","h","i","n","g","t","o","n"," ","D",".","C",".","x">>, <<"x">>, <<" ">>, <<"N","Y","C",","," ">> }

DateParts ==
    { <<"M","a","y"," ","1","6",","," ","2","0","2","6">>, <<" ","a","n","d"," ","M","a","y"," ","2","0",","," ","2","0","2","6">>, <<" ","/"," ","M","a","y"," ","1","6",","," ","2","0","2","6">>, <<"m","a","y"," ","1","6",","," ","2","0","2","6"," ">>,
      <<"M","a","y"," ","1","6">>, <<","," ","2","0","2","6">>, <<" ","2","0","2","6">>, <<"A","u","g","u","s","t"," ","1","s","t"," ","2","0","2","6">>, <<"S","e","p","t","."," ","3","r","d",","," "," ","1","9","9","9">>,
      <<"M","a","r"," ","1","2","3",","," ","2","0","2","6">>, <<"D","e","c"," ","5"," ","2","0","2","6">>, <<"7">>, <<"x">>, <<" ">> }

\* the arguments each method is called with
Arguments(method) ==
    CASE method = "is_valid_image"   -> TextsOf(ImageParts, MaxParts)
      [] method = "validate_content" -> TextsOf(ContentParts, MaxParts)
      [] method = "extract_metadata" ->
            TextsOf(CityParts, MaxParts) \cup TextsOf(DateParts, MaxParts)
                \cup { c \o <<" ","o","n"," ">> \o d : c \in CityParts, d \in DateParts }

\* is_valid_image(url), validate_content(text) or extract_metadata(text)
\* called on its own
CallInit ==
    /\ entry \in { "is_valid_image", "validate_content", "extract_metadata" }
    /\ pc = "call"
    /\ arg \in Arguments(entry)
    /\ result = None
    /\ Fresh
    /\ Idle

\* is_valid_image, lines 97-104
IsValidImage ==
    /\ entry = "is_valid_image"
    /\ pc = "call"
    /\ result' = Some(is_valid_image(arg))
    /\ pc' = "returned"
    /\ UNCHANGED << entry, runs, pipeline, files, error, arg >>

\* validate_content, lines 114-117
ValidateContent ==
    /\ entry = "validate_content"
    /\ pc = "call"
    /\ result' = Some(validate_content(arg))
    /\ pc' = "returned"
    /\ UNCHANGED << entry, runs, pipeline, files, error, arg >>

\* extract_metadata, lines 119-126
ExtractMetadata ==
    /\ entry = "extract_metadata"
    /\ pc = "call"
    /\ result' = Some(extract_metadata(arg))
    /\ pc' = "returned"
    /\ UNCHANGED << entry, runs, pipeline, files, error, arg >>

CallNext == IsValidImage \/ ValidateContent \/ ExtractMetadata

CallSpec == CallInit /\ [][CallNext]_vars

\* a run, or a direct call of fetch_news
IngestSpec == (Init \/ FetchInit) /\ [][Next]_vars

\* a run, or a direct call of enrich_with_images
EnrichAnySpec == (Init \/ EnrichInit) /\ [][Next]_vars

\* -------------------------------------------------------------------- claims

\* entry i of the feed document of request k, with its query
Logged(k, i) ==
    [ artist |-> feed_log[k].artist, topic |-> feed_log[k].topic,
      item |-> feed_log[k].response.items[i] ]

\* whether P holds of some, of every, entry of the feed documents received
SomeLogged(P(_)) ==
    \E k \in DOMAIN feed_log :
        \E i \in DOMAIN feed_log[k].response.items : P(Logged(k, i))
EveryLogged(P(_)) ==
    \A k \in DOMAIN feed_log :
        \A i \in DOMAIN feed_log[k].response.items : P(Logged(k, i))

\* the dedupe key as the specification words it: the lower-case of the first
\* 30 characters of the title
PrefixKey(title) ==
    [i \in 1..(IF Len(title) < 30 THEN Len(title) ELSE 30) |-> LowerChar(title[i])]

\* the positions of the candidates that are the first of their key
FirstOccurrences(items) ==
    { i \in DOMAIN items :
        \A j \in 1..(i - 1) : PrefixKey(items[j].title) # PrefixKey(items[i].title) }

NameTrusted(item) == is_whitelisted_source_name(SourceName(item))
LinkTrusted(item) == is_whitelisted(Val(item.link))

\* whether a candidate is the one fetch_news builds from a logged entry
CameFrom(c, l) ==
    /\ ~ EntryRaises(l.item)
    /\ c.artist = l.artist /\ c.topic = l.topic
    /\ c.title = Val(l.item.title)
    /\ c.source = SourceName(l.item)
    /\ c.url = Val(l.item.link)
    /\ c.published_at = Val(l.item.pubDate)

\* C2: a feed entry whose source name and whose link are both untrusted is
\* never emitted as a candidate, whatever keywords it contains.
C2_UntrustedNeverEmitted ==
    LET kept_out(l) ==
            (~ EntryRaises(l.item) /\ ~ NameTrusted(l.item) /\ ~ LinkTrusted(l.item))
                => \A i \in DOMAIN all_news : ~ CameFrom(all_news[i], l)
    IN  EveryLogged(kept_out)

\* C2 witness: fetch_news returned nothing for a document whose only entry is
\* untrusted by name and by link and holds every validation keyword.
C2_Witness ==
    /\ entry = "fetch_news" /\ pc = "returned"
    /\ all_news = << >>
    /\ LET untrusted(l) ==
             /\ ~ EntryRaises(l.item)
             /\ ~ NameTrusted(l.item) /\ ~ LinkTrusted(l.item)
             /\ LET text == Lower(Val(l.item.title) \o <<" ">> \o Description(l.item))
                IN  \A keyword \in validation_keywords : Contains(keyword, text)
       IN  SomeLogged(untrusted)

\* C3: every candidate fetch_news returned, and every candidate of the lists of
\* a run that fetched, comes from an entry whose source is trusted by name or
\* by link and whose title and description hold a validation keyword.
C3_AcceptedPassedBothGates ==
    LET passed(c) ==
            LET source(l) ==
                    /\ CameFrom(c, l)
                    /\ (NameTrusted(l.item) \/ LinkTrusted(l.item))
                    /\ LET text == Lower(Val(l.item.title) \o <<" ">> \o Description(l.item))
                       IN  \E keyword \in validation_keywords : Contains(keyword, text)
            IN  SomeLogged(source)
    IN  /\ \A i \in DOMAIN all_news : passed(all_news[i])
        /\ feed_log # << >> =>
              \A i \in DOMAIN enriched_news :
                  passed(enriched_news[i])

\* C3 witness: the final list of a run holds a candidate trusted by its link
\* only and a candidate trusted by its source name only.
C3_Witness ==
    /\ entry = "run" /\ pc = "done" /\ feed_log # << >>
    /\ \E i, j \in DOMAIN enriched_news :
         /\ ~ is_whitelisted_source_name(enriched_news[i].source)
         /\ is_whitelisted(enriched_news[i].url)
         /\ is_whitelisted_source_name(enriched_news[j].source)
         /\ ~ is_whitelisted(enriched_news[j].url)

\* the fetch_og_image calls made for candidates of the (artist, topic) group of c
GroupCalls(c) ==
    { k \in DOMAIN og_log :
        /\ all_news[og_log[k]].artist = c.artist
        /\ all_news[og_log[k]].topic = c.topic }

\* C4: enrich_with_images calls fetch_og_image at most limit_per_artist times
\* for the candidates of one (artist, topic) group, failed calls included; in
\* run the limit is 3.
C4_EnrichQuota ==
    /\ \A i \in DOMAIN all_news :
          Cardinality(GroupCalls(all_news[i])) <= limit_per_artist
    /\ (entry = "run" /\ og_log # << >>) => limit_per_artist = 3

\* C4 witness: in a run a group had three calls, one of which gave no image,
\* and a later candidate of the group without image was passed over.
C4_Witness ==
    /\ entry = "run" /\ pc = "json"
    /\ \E i \in DOMAIN enriched_news :
         /\ enriched_news[i].image_url = << >>
         /\ Cardinality(GroupCalls(enriched_news[i])) = 3
         /\ updated_items[i] \notin Range(og_log)
         /\ \E k \in GroupCalls(enriched_news[i]) :
                all_news[og_log[k]].image_url = << >>

\* the candidates the specification expects of one feed request
Contribution(l) ==
    IF ~ l.response.ok THEN << >>
    ELSE fetch_news(l.artist, l.topic, l.response).items

\* C5: in a run that fetches, a failed feed request is not fatal and not
\* retried: the requests are one for each pair, in the order of the loop; the
\* run is never ended by a failed request; and the accepted list is the
\* concatenation of what each request contributes by itself, nothing for a
\* failed one.
C5_FailedFetchNotFatal ==
    entry = "run" =>
        /\ Len(feed_log) <= Len(Pairs)
        /\ \A k \in DOMAIN feed_log :
              /\ feed_log[k].artist = Pairs[k].artist
              /\ feed_log[k].topic = Pairs[k].topic
        /\ pc \in {"dedupe", "enrich", "json", "markdown"} =>
              Len(feed_log) = Len(Pairs)
        /\ pc = "fetch" => pair = Len(feed_log) + 1
        /\ (pc = "crashed" /\ feed_log # << >>) =>
              feed_log[Len(feed_log)].response.ok
        /\ pc \in {"fetch", "dedupe"} =>
              all_news = Concat([k \in DOMAIN feed_log |-> Contribution(feed_log[k])])

\* C5 witness: a run completed in which a request failed and a later request
\* contributed a candidate of the final list.
C5_Witness ==
    /\ entry = "run" /\ pc = "done" /\ Len(feed_log) = Len(Pairs)
    /\ \E k, j \in DOMAIN feed_log :
         /\ k < j
         /\ ~ feed_log[k].response.ok
         /\ \E i \in DOMAIN enriched_news :
                /\ enriched_news[i].artist = feed_log[j].artist
                /\ enriched_news[i].topic = feed_log[j].topic

\* whether a logged entry passes both gates
PassesBoth(l) ==
    /\ ~ EntryRaises(l.item)
    /\ (NameTrusted(l.item) \/ LinkTrusted(l.item))
    /\ LET text == Lower(Val(l.item.title) \o <<" ">> \o Description(l.item))
       IN  \E keyword \in validation_keywords : Contains(keyword, text)

\* the places (request, entry) of the logged entries that pass both gates
PassingPlaces ==
    { p \in UNION { { << k, i >> : i \in DOMAIN feed_log[k].response.items } :
                    k \in DOMAIN feed_log } :
        PassesBoth(Logged(p[1], p[2])) }

\* no two passing entries share a dedupe key
NoSharedKey ==
    \A p, q \in PassingPlaces :
        p # q => PrefixKey(Val(Logged(p[1], p[2]).item.title))
                    # PrefixKey(Val(Logged(q[1], q[2]).item.title))

\* C6: when a run without snapshot is done and no two passing entries shared a
\* dedupe key, its final list holds exactly one candidate for each passing
\* entry, tagged with the artist and topic of the entry's query.
C6_OneCandidatePerPassingEntry ==
    (entry = "run" /\ pc = "done" /\ Len(feed_log) = Len(Pairs) /\ NoSharedKey) =>
        /\ Len(enriched_news) = Cardinality(PassingPlaces)
        /\ \A p \in PassingPlaces :
              Cardinality({ n \in DOMAIN enriched_news :
                              CameFrom(enriched_news[n], Logged(p[1], p[2])) }) = 1

\* C6 witness: one artist, one passing entry for each topic: two candidates,
\* one for each topic, both of that artist.
C6_Witness ==
    /\ entry = "run" /\ pc = "done" /\ Len(feed_log) = Len(Pairs) /\ NoSharedKey
    /\ Len(enriched_news) = 2
    /\ enriched_news[1].artist = Roster[1] /\ enriched_news[1].topic = Topics[1]
    /\ enriched_news[2].artist = Roster[1] /\ enriched_news[2].topic = Topics[2]

\* C7: every run completes and produces its artifacts: a run stops only when
\* it is done (json.load of a malformed snapshot aside), and a run that is done
\* has produced the report, the snapshot, and the summary when it fetched.
C7_RunCompletesWithArtifacts ==
    entry = "run" =>
        /\ pc = "crashed" => error = "JSONDecodeError"
        /\ pc = "done" =>
              /\ ~ IsNone(report)
              /\ ~ IsNone(snapshot)
              /\ feed_log # << >> => ~ IsNone(summary)

\* the host of a url: its netloc without user information and port
Host(url) ==
    LET n == Lower(netloc(url))
        at == IF "@" \in Range(n)
              THEN CHOOSE i \in DOMAIN n : n[i] = "@" /\ \A j \in (i + 1)..Len(n) : n[j] # "@"
              ELSE 0
        hostport == Drop(n, at)
    IN  SubSeq(hostport, 1, FindAny(hostport, {":"}, 1) - 1)

EndsWith(s, suffix) ==
    /\ Len(suffix) <= Len(s)
    /\ SubSeq(s, Len(s) - Len(suffix) + 1, Len(s)) = suffix

\* C8: is_whitelisted accepts the link of an entry exactly when the host of
\* the link ends with a trusted domain.
C8_LinkGateIsHostSuffix ==
    (entry = "fetch_news" /\ pc = "returned") =>
        LET suffix_rule(l) ==
                is_whitelisted(Val(l.item.link))
                    <=> \E d \in whitelist : EndsWith(Host(Val(l.item.link)), d)
        IN  EveryLogged(suffix_rule)

\* the image the specification gives an entry: the media:content url when
\* valid, otherwise the src of the first <img> of the description when valid
ClaimedImage(item) ==
    IF /\ ~ IsNone(item.media) /\ ~ IsNone(Val(item.media))
       /\ is_valid_image(Val(Val(item.media)))
    THEN Val(Val(item.media))
    ELSE IF /\ ~ IsNone(item.description)
            /\ Val(item.description).imgs # << >>
            /\ ~ IsNone(Val(item.description).imgs[1])
            /\ is_valid_image(Val(Val(item.description).imgs[1]))
         THEN Val(Val(item.description).imgs[1])
         ELSE << >>

\* C9: the image of a candidate fetch_news returns is the valid media:content
\* url of its entry, otherwise the valid src of the first description <img>,
\* otherwise empty.
C9_ImagePriority ==
    (entry = "fetch_news" /\ pc = "returned") =>
        LET right_image(l) ==
                \A n \in DOMAIN all_news :
                    CameFrom(all_news[n], l) =>
                        all_news[n].image_url = ClaimedImage(l.item)
        IN  EveryLogged(right_image)

\* a url that holds a BAD_IMAGE_PATTERNS substring
Placeholder(url) == \E p \in BAD_IMAGE_PATTERNS : Contains(p, url)

NoPlaceholderIn(items) ==
    \A i \in DOMAIN items : ~ Placeholder(items[i].image_url)

\* C10: in a run that fetches (and in fetch_news called directly) no candidate
\* of the accepted, deduplicated or enriched list, and none of the files
\* written, has a placeholder image url.
C10_NoPlaceholderImages ==
    /\ NoPlaceholderIn(all_news)
    /\ feed_log # << >> =>
          /\ NoPlaceholderIn(enriched_news)
          /\ pc \in {"markdown", "html", "done"} =>
                NoPlaceholderIn(Val(snapshot).items)
          /\ pc \in {"html", "done"} => NoPlaceholderIn(Val(summary))
          /\ pc = "done" => NoPlaceholderIn(Val(report))

\* C10 witness: a run is done whose final list holds a candidate of an entry
\* with a placeholder media:content url and a candidate whose image came from
\* the og:image scrape.
C10_Witness ==
    /\ entry = "run" /\ pc = "done" /\ feed_log # << >>
    /\ \E n \in DOMAIN enriched_news :
         LET from_placeholder(l) ==
                 /\ CameFrom(enriched_news[n], l)
                 /\ Placeholder(MediaImage(l.item))
         IN  SomeLogged(from_placeholder)
    /\ \E m \in DOMAIN enriched_news : enriched_news[m].image_url = OtherImage


\* C11: every candidate fetch_news returns has a non-empty title and a
\* non-empty url: an entry whose title or link is missing or empty yields no
\* candidate.
C11_NonEmptyTitleAndUrl ==
    (entry = "fetch_news" /\ pc = "returned") =>
        \A i \in DOMAIN all_news :
            all_news[i].title # << >> /\ all_news[i].url # << >>

\* C12: nothing in a feed document that was fetched aborts the run: an entry
\* with an absent element gets an empty value or is skipped, and the only run
\* that fails is the one that finds a malformed snapshot, before any fetch.
C12_FeedContentNeverAborts ==
    entry = "run" =>
        /\ error # "AttributeError"
        /\ pc = "crashed" =>
              /\ feed_log = << >>
              /\ ~ IsNone(snapshot) /\ Val(snapshot).malformed

\* C13: a run that finds the snapshot file loads its list: the next statement
\* is the HTML renderer, which is handed exactly the loaded list; no feed or
\* page request is issued, nothing is deduplicated and no file but the report
\* is written.
C13_CachedRunLoadsSnapshot ==
    [][ /\ ( /\ entry = "run" /\ pc = "start"
             /\ ~ IsNone(snapshot) /\ ~ Val(snapshot).malformed ) =>
               /\ pc' = "html"
               /\ enriched_news' = Val(snapshot).items
               /\ UNCHANGED << feed_log, og_log, in_flight, all_news, clean_news,
                               updated_items, files >>
        /\ (entry = "run" /\ pc = "html" /\ feed_log = << >>) =>
               /\ pc' = "done"
               /\ report' = Some(Val(snapshot).items)
               /\ UNCHANGED << feed_log, og_log, in_flight, all_news, clean_news,
                               updated_items, snapshot, summary >>
      ]_vars

\* C13 witness: a run that found a snapshot holding the same candidate twice
\* is done: it made no request and rendered both.
C13_Witness ==
    /\ entry = "run" /\ pc = "done"
    /\ feed_log = << >> /\ og_log = << >> /\ clean_news = << >>
    /\ snapshot = Snapshot(<< OldCandidate, OldCandidate >>)
    /\ report = Some(<< OldCandidate, OldCandidate >>)

\* the Python test "sub in s", by comparing slices
OccursIn(sub, s) ==
    \E i \in 1..(Len(s) - Len(sub) + 1) : SubSeq(s, i, i + Len(sub) - 1) = sub

\* the whole of each of the matches ms
WholeOf(text, ms) == { SubSeq(text, ms[k].from, ms[k].to - 1) : k \in DOMAIN ms }

\* the whole of each match of the date pattern in the text
WholeDates(text) == WholeOf(text, DateMatches(text))

\* C14: the dates extract_metadata returns are exactly the distinct substrings
\* of the text that match the 'Month Day[,] Year' pattern, each as the whole
\* matched date and not a fragment of it.
C14_DatesAreWholeMatches ==
    (entry = "extract_metadata" /\ pc = "returned") =>
        Val(result).dates = WholeDates(arg)

\* the patterns as the specification lists them
PlaceholderPatterns ==
    { <<"l","h","3",".","g","o","o","g","l","e","u","s","e","r","c","o","n","t","e","n","t",".","c","o","m">>, <<"g","o","o","g","l","e",".","c","o","m","/","l","o","g","o","s">>, <<"g","s","t","a","t","i","c",".","c","o","m">>, <<"g","n","e","w","s","-","l","o","g","o">> }

\* C15: is_valid_image(url) is false exactly when url is empty or contains one
\* of the four placeholder patterns, and true for every other url.
C15_ValidImageIff ==
    (entry = "is_valid_image" /\ pc = "returned") =>
        /\ Val(result) \in BOOLEAN
        /\ Val(result) = FALSE <=>
              (arg = << >> \/ \E p \in PlaceholderPatterns : OccursIn(p, arg))

\* C15 witness: a url that holds a pattern written in capitals and the
\* beginning of another pattern was found valid.
C15_Witness ==
    /\ entry = "is_valid_image" /\ pc = "returned"
    /\ OccursIn(<<"G","S","T","A","T","I","C",".","C","O","M">>, arg) /\ OccursIn(<<"g","o","o","g","l","e",".","c","o","m">>, arg)
    /\ result = Some(TRUE)

\* whether k is a substring of text when case is ignored
OccursIgnoringCase(k, text) ==
    \E i \in 1..(Len(text) - Len(k) + 1) :
        Lower(SubSeq(text, i, i + Len(k) - 1)) = Lower(k)

\* C16: validate_content(text) is true exactly when some validation keyword is
\* a substring of the text, case ignored, inside a word or not.
C16_ValidateContentIff ==
    (entry = "validate_content" /\ pc = "returned") =>
        /\ Val(result) \in BOOLEAN
        /\ Val(result) = TRUE <=>
              \E k \in validation_keywords : OccursIgnoringCase(k, arg)

\* C16 witness: a text whose only keyword is in capitals inside a longer word
\* was found relevant.
C16_Witness ==
    /\ entry = "validate_content" /\ pc = "returned"
    /\ arg = <<"U","N","R","E","L","E","A","S","E","D">> \o <<" ">>
    /\ result = Some(TRUE)

\* C17: the cities extract_metadata returns are each a vocabulary entry, case
\* ignored, written as in the text, and no city is returned twice, whatever
\* the casings in which the text mentions it.
C17_CitiesDeduplicated ==
    (entry = "extract_metadata" /\ pc = "returned") =>
        LET cities == Val(result).cities IN
            /\ \A c \in cities :
                  /\ \E k \in DOMAIN CityNames : Lower(c) = Lower(CityNames[k])
                  /\ OccursIn(c, arg)
            /\ \A c, d \in cities : Lower(c) = Lower(d) => c = d

\* C18: at most one network request, feed or page, is outstanding at any
\* moment, and one is outstanding only while its caller waits for it: a
\* request is issued only after the one before has returned, failed or timed
\* out.
C18_OneRequestAtATime ==
    /\ Cardinality(in_flight) <= 1
    /\ in_flight # {} <=> pc \in { "feed_wait", "og_wait" }

\* C18 witness: in a run all the feed requests and two page requests have
\* returned and a third page request is outstanding.
C18_Witness ==
    /\ entry = "run" /\ pc = "og_wait"
    /\ Len(feed_log) = Len(Pairs) /\ Len(og_log) = 3
    /\ Cardinality(in_flight) = 1

\* whether the candidates at two positions are of one (artist, topic) group
SameGroup(i, j) ==
    /\ all_news[i].artist = all_news[j].artist
    /\ all_news[i].topic = all_news[j].topic

\* whether the candidate at a position came to enrich_with_images without an
\* image: only a fetch gives a candidate an image
LackedImage(i) == i \in Range(og_log) \/ all_news[i].image_url = << >>

\* enrich_with_images has gone through its list
EnrichDone ==
    \/ entry = "enrich_with_images" /\ pc = "returned"
    \/ entry = "run" /\ pc = "json"

\* C19: when enrich_with_images is through, the candidates a fetch was made
\* for are, in each (artist, topic) group, exactly the first N of the group
\* that lacked an image, in input order (all of them when fewer than N), a
\* failed fetch counting like any other.
C19_FirstImagelessFetched ==
    EnrichDone =>
        /\ \A j \in DOMAIN clean_news :
              clean_news[j] \in Range(og_log) <=>
                  /\ LackedImage(clean_news[j])
                  /\ Cardinality({ h \in 1..(j - 1) :
                                     /\ SameGroup(clean_news[h], clean_news[j])
                                     /\ LackedImage(clean_news[h]) })
                        < limit_per_artist
        /\ \A k, l \in DOMAIN og_log : k < l => og_log[k] < og_log[l]

\* C20: enrich_with_images returns the candidates of its input, in the same
\* order and number; a step of it changes at most the image_url of the
\* candidate at hand, and only when that candidate had none; a candidate that
\* has an image is passed on without request, change or use of quota.
C20_EnrichFrame ==
    [][ (pc = "enrich" \/ pc = "og_wait") =>
          /\ clean_news' = clean_news
          /\ Len(all_news') = Len(all_news)
          /\ \A i \in DOMAIN all_news :
                \/ all_news'[i] = all_news[i]
                \/ /\ i = clean_news[idx]
                   /\ all_news[i].image_url = << >>
                   /\ all_news'[i] =
                         [all_news[i] EXCEPT !.image_url = all_news'[i].image_url]
          /\ ( /\ pc = "enrich" /\ idx <= Len(clean_news)
               /\ all_news[clean_news[idx]].image_url # << >> ) =>
                 /\ UNCHANGED << all_news, artist_counts, og_log, in_flight >>
                 /\ updated_items' = Append(updated_items, clean_news[idx])
          /\ pc' \in { "returned", "json" } =>
                 enriched_news' = [i \in DOMAIN clean_news |-> all_news[clean_news[i]]]
      ]_vars

\* C20 witness: enrich_with_images, called with limit 1, returned a list in
\* which a candidate kept the image it came with, without a fetch, and a later
\* candidate of the same group got its image from the one fetch of the group.
C20_Witness ==
    /\ entry = "enrich_with_images" /\ pc = "returned" /\ limit_per_artist = 1
    /\ \E i, j \in DOMAIN enriched_news :
         /\ i < j
         /\ SameGroup(updated_items[i], updated_items[j])
         /\ enriched_news[i].image_url = ValidImage
         /\ updated_items[i] \notin Range(og_log)
         /\ enriched_news[j].image_url = OtherImage

\* whether the answer to a page request is one of the failures of
\* fetch_og_image: an exception, a status other than 200, no og:image tag (or
\* one without content), or an image is_valid_image rejects
FetchFailed(page) ==
    \/ page.raises
    \/ page.status # 200
    \/ IsNone(page.og)
    \/ ~ is_valid_image(Val(page.og))

\* C21: whatever the answer to the page request of an enrichment fetch, the
\* batch goes on: the candidate is appended to the result, the loop moves to
\* the next candidate and nothing is raised; when the answer is a failure the
\* candidate is left with an empty image_url; and the list returned in the end
\* holds every candidate of the input.
C21_FailedEnrichmentNotFatal ==
    [][ /\ pc = "og_wait" =>
             /\ ~ IsNone(resp')
             /\ FetchFailed(Val(resp')) =>
                   all_news'[clean_news[idx]].image_url = << >>
             /\ pc' = "enrich" /\ error' = ""
             /\ idx' = idx + 1
             /\ updated_items' = Append(updated_items, clean_news[idx])
        /\ (pc = "enrich" /\ pc' # "enrich" /\ pc' # "og_wait") =>
             /\ pc' \in { "returned", "json" }
             /\ updated_items = clean_news
             /\ Len(enriched_news') = Len(clean_news)
      ]_vars

\* C21 witness: enrich_with_images returned a list in which a candidate whose
\* fetch failed has no image and a later candidate got its image from a fetch
\* made after that.
C21_Witness ==
    /\ entry = "enrich_with_images" /\ pc = "returned"
    /\ ~ IsNone(resp) /\ ~ FetchFailed(Val(resp))
    /\ \E i, j \in DOMAIN enriched_news :
         /\ i < j
         /\ updated_items[i] \in Range(og_log)
         /\ enriched_news[i].image_url = << >>
         /\ updated_items[j] \in Range(og_log)
         /\ enriched_news[j].image_url = OtherImage

\* the fetch_og_image calls made, before the candidate at position i was at
\* hand, for candidates of its (artist, topic) group
GroupCallsBefore(i) ==
    { k \in DOMAIN og_log : og_log[k] < i /\ SameGroup(og_log[k], i) }

\* C22: the quota of enrich_with_images is kept per (artist, topic) group: a
\* candidate without image is passed over without a fetch only when
\* limit_per_artist fetches were made before it for candidates of its own
\* (artist, topic) pair, whatever characters artist and topic hold.
C22_QuotaPerGroup ==
    \A k \in DOMAIN updated_items :
        ( /\ all_news[updated_items[k]].image_url = << >>
          /\ updated_items[k] \notin Range(og_log) ) =>
            Cardinality(GroupCallsBefore(updated_items[k])) >= limit_per_artist

\* the positions run is at between its first feed request and the snapshot write
BeforeSnapshot == { "fetch", "feed_wait", "dedupe", "enrich", "og_wait", "json" }

\* the run is past line 281: it found no snapshot and fetches
NonCached == pc \in BeforeSnapshot \/ feed_log # << >>

\* C23: a run that found no snapshot goes through its stages in the order
\* feed fetching, deduplication, enrichment, snapshot, markdown summary, HTML
\* report: a page request is issued only when every pair's feed request has
\* returned, and only for a candidate deduplicate kept; the snapshot is
\* written only when enrich_with_images has returned, the summary after the
\* snapshot and the report after the summary.
C23_StageOrder ==
    (entry = "run" /\ NonCached /\ pc # "crashed") =>
        /\ pc \in { "fetch", "feed_wait" } =>
              clean_news = << >> /\ og_log = << >>
        /\ pc \notin { "fetch", "feed_wait" } =>
              /\ Len(feed_log) = Len(Pairs)
              /\ \A r \in in_flight : r.kind = "page"
        /\ pc = "dedupe" => clean_news = << >> /\ og_log = << >>
        /\ pc \notin { "fetch", "feed_wait", "dedupe" } =>
              clean_news = deduplicate(all_news)
        /\ \A k \in DOMAIN og_log : og_log[k] \in Range(clean_news)
        /\ pc \in BeforeSnapshot => IsNone(snapshot) /\ IsNone(summary) /\ IsNone(report)
        /\ pc \notin BeforeSnapshot =>
              /\ idx = Len(clean_news) + 1
              /\ enriched_news = Deref(clean_news)
              /\ snapshot = Snapshot(enriched_news)
        /\ pc = "markdown" => IsNone(summary) /\ IsNone(report)
        /\ pc = "html" => summary = Some(enriched_news) /\ IsNone(report)
        /\ pc = "done" => summary = Some(enriched_news) /\ report = Some(enriched_news)

\* C23 witness: a run that found no snapshot is complete; deduplicate dropped
\* a candidate that had no image, page requests were made, and the three files
\* hold the enriched list.
C23_Witness ==
    /\ entry = "run" /\ pc = "done" /\ Len(feed_log) = Len(Pairs)
    /\ og_log # << >>
    /\ \E i \in DOMAIN all_news :
         i \notin Range(clean_news) /\ all_news[i].image_url = << >>
    /\ snapshot = Snapshot(enriched_news)
    /\ report = Some(enriched_news)

\* the place of a candidate's artist in the roster, and of its topic among the
\* two queries
ArtistPlace(c) == CHOOSE n \in DOMAIN Roster : Roster[n] = c.artist
TopicPlace(c) == IF c.topic = <<"U","S"," ","T","o","u","r">> THEN 1 ELSE 2

\* whether candidates c and d are of one (artist, topic) pair, made from
\* entries of that pair's feed document of which the one of c comes first
FeedOrdered(c, d) ==
    \E k \in DOMAIN feed_log :
        /\ feed_log[k].artist = c.artist /\ feed_log[k].topic = c.topic
        /\ \E i, j \in DOMAIN feed_log[k].response.items :
              /\ i < j
              /\ CameFrom(c, Logged(k, i))
              /\ CameFrom(d, Logged(k, j))

\* whether a list of candidates is in the order of the specification: by
\* roster order of the artists, <<"U","S"," ","T","o","u","r">> before <<"C","o","m","e","b","a","c","k">>, then feed order
InSpecOrder(items) ==
    \A a, b \in DOMAIN items :
        a < b =>
            \/ ArtistPlace(items[a]) < ArtistPlace(items[b])
            \/ /\ items[a].artist = items[b].artist
               /\ TopicPlace(items[a]) < TopicPlace(items[b])
            \/ /\ items[a].artist = items[b].artist
               /\ items[a].topic = items[b].topic
               /\ FeedOrdered(items[a], items[b])

\* C24: in a run that found no snapshot, the accepted candidates, and so the
\* final list, are ordered by roster order of the artists, <<"U","S"," ","T","o","u","r">> before
\* <<"C","o","m","e","b","a","c","k">> within an artist, and feed order within a pair; deduplicate
\* keeps the candidates it keeps in that order, and enrich_with_images returns
\* the deduplicated list in the same order, differing in image_url at most.
C24_FinalListOrder ==
    (entry = "run" /\ pc \in { "json", "markdown", "html", "done" }
                   /\ feed_log # << >>) =>
        /\ InSpecOrder(all_news)
        /\ \A i, j \in DOMAIN clean_news : i < j => clean_news[i] < clean_news[j]
        /\ enriched_news = Deref(clean_news)
        /\ InSpecOrder(enriched_news)

\* C24 witness: the final list of a complete run holds two candidates of one
\* pair and, after them, a candidate of the other artist, while deduplicate
\* dropped a candidate placed between kept ones and a fetch filled an image.
C24_Witness ==
    /\ entry = "run" /\ pc = "done" /\ feed_log # << >>
    /\ \E a, b, c \in DOMAIN enriched_news :
         /\ a < b /\ b < c
         /\ enriched_news[a].artist = enriched_news[b].artist
         /\ enriched_news[a].topic = enriched_news[b].topic
         /\ enriched_news[c].artist # enriched_news[a].artist
    /\ \E i, j \in Range(clean_news) :
         \E h \in DOMAIN all_news : i < h /\ h < j /\ h \notin Range(clean_news)
    /\ \E k \in DOMAIN og_log : all_news[og_log[k]].image_url = OtherImage

C26_SuccessiveRuns ==
    [][ entry = "run" =>
          /\ (pc' \in { "done", "crashed" } /\ pc' # pc /\ feed_log' # << >>) =>
                snapshot' = Snapshot(enriched_news')
          /\ runs' > runs => UNCHANGED files
          /\ (runs > 1 /\ runs' = runs) =>
                /\ UNCHANGED << snapshot, summary >>
                /\ feed_log' = << >> /\ og_log' = << >> /\ in_flight' = {}
                /\ pc' = "done" => report' = Some(Val(snapshot).items)
      ]_vars


\* source names that name no outlet: the empty name and short fragments that
\* occur inside a trusted domain
FragmentNames == { << >>, <<"c","o","m">>, <<"i","o">>, <<"e">> }

\* whether a trusted domain occurs in the host of the link
HostTrusted(item) ==
    \E d \in whitelist : OccursIn(d, Host(Val(item.link)))

\* C27: a feed entry whose <source> is empty or holds only a short fragment of
\* a trusted domain, and whose link host holds no trusted domain, is rejected
\* by the trust gate of fetch_news: no candidate is made from it.
C27_FragmentNameRejected ==
    LET rejected(l) ==
            ( /\ ~ EntryRaises(l.item)
              /\ ~ IsNone(l.item.source)
              /\ Val(l.item.source) \in FragmentNames
              /\ ~ HostTrusted(l.item) )
                => \A i \in DOMAIN all_news : ~ CameFrom(all_news[i], l)
    IN  EveryLogged(rejected)
=============================================================================
